---- MODULE Spec2Model ----
(***************************************************************************)
(* Model of the MCP protocol client of LCQ: src/lib/mcp/client.ts          *)
(* (McpClient), its helpers in src/lib/mcp/utils.ts, the error classes of  *)
(* src/lib/mcp/models.ts and the registry of src/config/mcp-config.ts.     *)
(*                                                                         *)
(* JavaScript is single-threaded: an async function runs atomically from   *)
(* one await to the next, so each action below is one such run.            *)
(***************************************************************************)
EXTENDS Integers, Sequences, FiniteSets, TLC

(***************************************************************************)
(* Bounds of the model.                                                    *)
(***************************************************************************)
\* number of execute calls issued on the client in one behaviour, under a
\* gateway that can end an attempt in every way (Spec)
MaxCalls == 1
\* number of execute calls issued by the callers that share the client (SpecShared)
MaxSharedCalls == 2
\* the clock (Date.now(), in ms, counted from the start) ticks at most this
\* many milliseconds (SpecIds), or this many past a whole window (SpecLedger)
MaxNow == 2
\* the clock jumps ahead by a whole 60-second window at most this many times
MaxWindows == 2
\* how many times the rate-limit helpers are called
MaxLedgerOps == 3

(***************************************************************************)
(* Registry: src/config/mcp-config.ts                                      *)
(***************************************************************************)
\* `undefined` where a string is expected (a missing constructor argument)
NoId == ""

endpoints ==
  << [id |-> "lcq-default", url |-> "https://mcp.lcq.gg/v1", isDefault |-> TRUE],
     [id |-> "local-development", url |-> "http://localhost:3001/mcp", isDefault |-> FALSE],
     [id |-> "custom", url |-> "", isDefault |-> FALSE] >>

\* method id -> rateLimitPerMinute, in the order of the table
methods ==
  << [id |-> "getAccountInfo", requiresApiKey |-> TRUE, rateLimitPerMinute |-> 60],
     [id |-> "getBalance", requiresApiKey |-> TRUE, rateLimitPerMinute |-> 120],
     [id |-> "getTransaction", requiresApiKey |-> TRUE, rateLimitPerMinute |-> 60],
     [id |-> "getTokenAccounts", requiresApiKey |-> TRUE, rateLimitPerMinute |-> 40],
     [id |-> "getTokenBalance", requiresApiKey |-> TRUE, rateLimitPerMinute |-> 120],
     [id |-> "getProgramAccounts", requiresApiKey |-> TRUE, rateLimitPerMinute |-> 20],
     [id |-> "getSignaturesForAddress", requiresApiKey |-> TRUE, rateLimitPerMinute |-> 30],
     [id |-> "getClusterNodes", requiresApiKey |-> TRUE, rateLimitPerMinute |-> 10],
     [id |-> "getBlockTime", requiresApiKey |-> TRUE, rateLimitPerMinute |-> 30],
     [id |-> "getSlot", requiresApiKey |-> TRUE, rateLimitPerMinute |-> 60],
     [id |-> "getHealth", requiresApiKey |-> FALSE, rateLimitPerMinute |-> 120],
     [id |-> "getVersion", requiresApiKey |-> FALSE, rateLimitPerMinute |-> 30] >>

defaultTimeout == 30000
configRetryAttempts == 3

\* Array.prototype.find: the first element satisfying P, or a record with
\* found = FALSE for `undefined`
NotFound == [found |-> FALSE, id |-> NoId, url |-> ""]

\* the index find stops at, given the indexes whose element satisfies the
\* predicate: the first of them, or 0 when there is none
FindIndex(hits) ==
  IF hits = {} THEN 0 ELSE CHOOSE i \in hits : \A j \in hits : i <= j

getEndpoint(id) ==
  LET i == FindIndex({j \in DOMAIN endpoints : endpoints[j].id = id})
  IN IF i = 0 THEN NotFound
     ELSE [found |-> TRUE, id |-> endpoints[i].id, url |-> endpoints[i].url]

getDefaultEndpoint ==
  LET i == FindIndex({j \in DOMAIN endpoints : endpoints[j].isDefault})
      k == IF i = 0 THEN 1 ELSE i
  IN [found |-> TRUE, id |-> endpoints[k].id, url |-> endpoints[k].url]

\* a lookup that falls back to the first method of the table on a miss
getMethodOrFirst(id) ==
  LET i == FindIndex({j \in DOMAIN methods : methods[j].id = id})
      k == IF i = 0 THEN 1 ELSE i
  IN [found |-> TRUE, id |-> methods[k].id, url |-> ""]

getMethod(id) ==
  LET i == FindIndex({j \in DOMAIN methods : methods[j].id = id})
  IN IF i = 0 THEN NotFound ELSE [found |-> TRUE, id |-> methods[i].id, url |-> ""]

\* `${endpointUrl}/rpc/${methodId}`
createMethodUrl(endpointUrl, methodId) == <<endpointUrl, "/rpc/", methodId>>

(***************************************************************************)
(* Errors: src/lib/mcp/models.ts, and the raw exceptions of the platform.  *)
(* cls is the constructor; message is the template text with its          *)
(* interpolated parts kept apart: method, num, inner.  A statusCode        *)
(* property that is absent is written 0: the code only tests it with       *)
(* `||` and Array.includes, which treat 0 and undefined alike.             *)
(***************************************************************************)
Msg(text, method, num, inner) ==
  [text |-> text, method |-> method, num |-> num, inner |-> inner]

RawMsg(text) == Msg(text, "", 0, "")

NoRetryAfter == -1

Err(cls, message, statusCode, retryAfter) ==
  [cls |-> cls, name |-> cls, message |-> message, statusCode |-> statusCode,
   status |-> 0, retryAfterHeader |-> NoRetryAfter, retryAfter |-> retryAfter]

NoError == Err("none", RawMsg(""), 0, NoRetryAfter)

McpError(message) == Err("McpError", message, 0, NoRetryAfter)
McpRequestError(message) == Err("McpRequestError", message, 0, NoRetryAfter)
McpConnectionError(message) == Err("McpConnectionError", message, 0, NoRetryAfter)
McpTimeoutError(message) == Err("McpTimeoutError", message, 0, NoRetryAfter)
McpResponseError(message, statusCode) == Err("McpResponseError", message, statusCode, NoRetryAfter)
McpRateLimitError(message, retryAfter) == Err("McpRateLimitError", message, 429, retryAfter)
McpAuthError(message) == Err("McpAuthError", message, 401, NoRetryAfter)

\* instanceof, along the extends chain of models.ts
McpErrorClasses ==
  {"McpError", "McpRequestError", "McpConnectionError", "McpTimeoutError",
   "McpResponseError", "McpRateLimitError", "McpAuthError"}
McpResponseErrorClasses == {"McpResponseError", "McpRateLimitError", "McpAuthError"}

\* exceptions thrown by fetch and by Response.json(); the texts are the ones
\* browsers use
TypeError(text) == Err("TypeError", RawMsg(text), 0, NoRetryAfter)
SyntaxError(text) == Err("SyntaxError", RawMsg(text), 0, NoRetryAfter)
PlainError(text) == Err("Error", RawMsg(text), 0, NoRetryAfter)

JsonParseText == "Unexpected token < in JSON at position 0"
FetchFailureTexts == {"Failed to fetch", "network error", "Load failed"}

\* String.prototype.includes on the message texts above (case-sensitive)
Includes(message, sub) ==
  CASE sub = "network" -> message.text \in {"network error"}
    [] sub = "fetch" -> message.text \in {"Failed to fetch"}
    [] sub = "JSON" -> message.text \in {JsonParseText}
    [] OTHER -> FALSE

\* `x || fallback` on a string, and on a number
OrElseStr(x, fallback) == IF x = "" THEN fallback ELSE x
OrElseNum(x, fallback) == IF x = 0 THEN fallback ELSE x

Min(a, b) == IF a <= b THEN a ELSE b

(***************************************************************************)
(* Envelopes.  A request id `lcq-${Date.now()}-${suffix}` is the pair of   *)
(* its two variable parts.  A parsed reply body is a flat record with a    *)
(* presence flag for each optional field; isNull is the JSON value null.   *)
(***************************************************************************)
generateRequestId(time, suffix) == [time |-> time, suffix |-> suffix]

\* clientId and clientVersion are spread into metadata only when truthy
formatMcpRequest(params, key, clientId, clientVersion, time, suffix) ==
  [params |-> params,
   id |-> generateRequestId(time, suffix),
   metadata |-> [apiKey |-> key, timestamp |-> time,
                 clientId |-> clientId, clientVersion |-> clientVersion]]

NoRequest == formatMcpRequest("", "", NoId, NoId, 0, "")

Body(isNull, hasError, code, message, hasResult, result, hasRateLimit, remaining, reset, limit) ==
  [isNull |-> isNull, hasError |-> hasError, code |-> code, message |-> message,
   hasResult |-> hasResult, result |-> result, hasRateLimit |-> hasRateLimit,
   remaining |-> remaining, reset |-> reset, limit |-> limit]

NullBody == Body(TRUE, FALSE, 0, "", FALSE, "", FALSE, 0, 0, 0)
EmptyEnvelope == Body(FALSE, FALSE, 0, "", FALSE, "", FALSE, 0, 0, 0)
ErrorEnvelope(code, message) == Body(FALSE, TRUE, code, message, FALSE, "", FALSE, 0, 0, 0)
ResultEnvelope(result) == Body(FALSE, FALSE, 0, "", TRUE, result, FALSE, 0, 0, 0)
RateLimitedEnvelope(result, remaining, reset, limit) ==
  Body(FALSE, FALSE, 0, "", TRUE, result, TRUE, remaining, reset, limit)
BothEnvelope(code, message, result) == Body(FALSE, TRUE, code, message, TRUE, result, FALSE, 0, 0, 0)

\* the outcome of validateMethodResponse: the value returned, or the error thrown
Returned(value) == [ok |-> TRUE, value |-> value, error |-> NoError]
Thrown(error) == [ok |-> FALSE, value |-> "", error |-> error]

\* validation that tests `!response.result`, so that a falsy result counts as missing
validateFalsyResult(response, methodId) ==
  IF response.isNull
    THEN Thrown(McpResponseError(Msg("Empty response from MCP method: ", methodId, 0, ""), 0))
  ELSE IF response.hasError
    THEN Thrown(McpResponseError(
           Msg("MCP error in method ", methodId, 0, OrElseStr(response.message, "Unknown error")),
           OrElseNum(response.code, 0)))
  ELSE IF ~response.hasResult \/ response.result = ""
    THEN Thrown(McpResponseError(Msg("Missing result in MCP response for method: ", methodId, 0, ""), 0))
  ELSE Returned(response.result)

\* validation that looks at the result field before the error field
validateResultFirst(response, methodId) ==
  IF response.isNull
    THEN Thrown(McpResponseError(Msg("Empty response from MCP method: ", methodId, 0, ""), 0))
  ELSE IF response.hasResult
    THEN Returned(response.result)
  ELSE IF response.hasError
    THEN Thrown(McpResponseError(
           Msg("MCP error in method ", methodId, 0, OrElseStr(response.message, "Unknown error")),
           OrElseNum(response.code, 0)))
  ELSE Thrown(McpResponseError(Msg("Missing result in MCP response for method: ", methodId, 0, ""), 0))

validateMethodResponse(response, methodId) ==
  IF response.isNull
    THEN Thrown(McpResponseError(Msg("Empty response from MCP method: ", methodId, 0, ""), 0))
  ELSE IF response.hasError
    THEN Thrown(McpResponseError(
           Msg("MCP error in method ", methodId, 0, OrElseStr(response.message, "Unknown error")),
           OrElseNum(response.code, 0)))
  ELSE IF ~response.hasResult
    THEN Thrown(McpResponseError(Msg("Missing result in MCP response for method: ", methodId, 0, ""), 0))
  ELSE Returned(response.result)

\* a classification that takes 403 for any other status
handleMcpErrorNo403(error) ==
  IF error.cls \in McpErrorClasses THEN error
  ELSE IF error.cls = "TypeError" /\ Includes(error.message, "network")
    THEN McpConnectionError(Msg("Network error connecting to MCP: ", "", 0, error.message.text))
  ELSE IF error.name = "FetchError" \/ Includes(error.message, "fetch")
    THEN McpConnectionError(Msg("Failed to connect to MCP: ", "", 0, error.message.text))
  ELSE IF error.name = "SyntaxError" /\ Includes(error.message, "JSON")
    THEN McpResponseError(Msg("Invalid JSON response from MCP: ", "", 0, error.message.text), 0)
  ELSE IF OrElseNum(error.status, error.statusCode) # 0
    THEN LET status == OrElseNum(error.status, error.statusCode)
         IN IF status = 401
              THEN McpAuthError(Msg("Authentication failed: ", "", 0,
                                    OrElseStr(error.message.text, "Invalid API key")))
            ELSE IF status = 429
              THEN McpRateLimitError(Msg("MCP rate limit exceeded: ", "", 0,
                                         OrElseStr(error.message.text, "Too many requests")),
                                     error.retryAfterHeader)
            ELSE McpResponseError(Msg("MCP HTTP error ", "", status,
                                      OrElseStr(error.message.text, "Unknown error")), status)
  ELSE McpError(Msg("MCP error: ", "", 0, OrElseStr(error.message.text, "Unknown error")))

handleMcpError(error) ==
  IF error.cls \in McpErrorClasses THEN error
  ELSE IF error.cls = "TypeError" /\ Includes(error.message, "network")
    THEN McpConnectionError(Msg("Network error connecting to MCP: ", "", 0, error.message.text))
  ELSE IF error.name = "FetchError" \/ Includes(error.message, "fetch")
    THEN McpConnectionError(Msg("Failed to connect to MCP: ", "", 0, error.message.text))
  ELSE IF error.name = "SyntaxError" /\ Includes(error.message, "JSON")
    THEN McpResponseError(Msg("Invalid JSON response from MCP: ", "", 0, error.message.text), 0)
  ELSE IF OrElseNum(error.status, error.statusCode) # 0
    THEN LET status == OrElseNum(error.status, error.statusCode)
         IN IF status = 401 \/ status = 403
              THEN McpAuthError(Msg("Authentication failed: ", "", 0,
                                    OrElseStr(error.message.text, "Invalid API key")))
            ELSE IF status = 429
              THEN McpRateLimitError(Msg("MCP rate limit exceeded: ", "", 0,
                                         OrElseStr(error.message.text, "Too many requests")),
                                     error.retryAfterHeader)
            ELSE McpResponseError(Msg("MCP HTTP error ", "", status,
                                      OrElseStr(error.message.text, "Unknown error")), status)
  ELSE McpError(Msg("MCP error: ", "", 0, OrElseStr(error.message.text, "Unknown error")))

(***************************************************************************)
(* Rate-limit helpers of utils.ts.  A ledger is a function from the method *)
(* ids that have an entry to [count, resetTime].                           *)
(***************************************************************************)
DefaultCeiling == 60
WindowMs == 60000

\* a check that takes the window to be over at the reset time itself
checkRateLimitAtReset(methodId, rateState, time) ==
  IF methodId \notin DOMAIN rateState \/ time >= rateState[methodId].resetTime
    THEN TRUE
    ELSE rateState[methodId].count < DefaultCeiling

checkRateLimit(methodId, rateState, time) ==
  IF methodId \notin DOMAIN rateState \/ time > rateState[methodId].resetTime
    THEN TRUE
    ELSE rateState[methodId].count < DefaultCeiling

Put(f, k, v) == [x \in DOMAIN f \cup {k} |-> IF x = k THEN v ELSE f[x]]

\* an update that takes the reset of a snapshot for milliseconds
updateRateLimitResetAsMs(methodId, rateState, response, time) ==
  IF response.hasRateLimit
    THEN Put(rateState, methodId,
             [count |-> response.limit - response.remaining,
              resetTime |-> response.reset])
  ELSE IF methodId \notin DOMAIN rateState
    THEN Put(rateState, methodId, [count |-> 1, resetTime |-> time + WindowMs])
  ELSE Put(rateState, methodId,
           [count |-> rateState[methodId].count + 1,
            resetTime |-> rateState[methodId].resetTime])

\* the ledger updateRateLimit returns
updateRateLimit(methodId, rateState, response, time) ==
  IF response.hasRateLimit
    THEN Put(rateState, methodId,
             [count |-> response.limit - response.remaining,
              resetTime |-> response.reset * 1000])
  ELSE IF methodId \notin DOMAIN rateState
    THEN Put(rateState, methodId, [count |-> 1, resetTime |-> time + WindowMs])
  ELSE Put(rateState, methodId,
           [count |-> rateState[methodId].count + 1,
            resetTime |-> rateState[methodId].resetTime])

\* the argument of updateRateLimit as the call leaves it.  newState is a
\* shallow copy ({ ...rateState }): its entries are the argument's own entry
\* objects, so `newState[methodId].count += 1` writes into the argument's
\* entry, while the assignments `newState[methodId] = {...}` do not.
updateRateLimitArgument(methodId, rateState, response, time) ==
  IF response.hasRateLimit \/ methodId \notin DOMAIN rateState
    THEN rateState
    ELSE [rateState EXCEPT ![methodId].count = rateState[methodId].count + 1]

(***************************************************************************)
(* Retry policy of McpClient.                                              *)
(***************************************************************************)
\* the list with 503 left out
retryableCodesNo503 == {408, 429, 500, 502, 504}

retryableCodes == {408, 429, 500, 502, 503, 504}

\* a policy that forgets the timeout errors
isRetryableNoTimeout(error) ==
  IF error.cls = "TypeError" /\ Includes(error.message, "network") THEN TRUE
  ELSE IF error.cls \in McpResponseErrorClasses THEN error.statusCode \in retryableCodes
  ELSE FALSE

isRetryableError(error) ==
  IF error.cls = "TypeError" /\ Includes(error.message, "network") THEN TRUE
  ELSE IF error.cls = "McpTimeoutError" THEN TRUE
  ELSE IF error.cls \in McpResponseErrorClasses THEN error.statusCode \in retryableCodes
  ELSE FALSE

BaseDelay == 1000
MaxDelay == 10000

\* the exponent of getRetryDelay: 2^attempt instead of 2^(attempt - 1)
backoffFromAttempt(attempt) == Min(BaseDelay * 2 ^ attempt, MaxDelay)

\* Math.min(1000 * Math.pow(2, attempt - 1), 10000)
backoffMs(attempt) == Min(BaseDelay * 2 ^ (attempt - 1), MaxDelay)

(***************************************************************************)
(* State.                                                                  *)
(***************************************************************************)
VARIABLES
  apiKey,      \* McpClient.apiKey
  endpointId,  \* McpClient.endpointId
  options,     \* McpClient.options: timeout, retryAttempts, debug
  calls,       \* the execute calls issued on the client, by order of issue
  now,         \* Date.now()
  rateState,   \* the ledger the caller of the rate-limit helpers holds
  ledgerLog,   \* what that caller did last: the helper, its arguments, its answer
  setterLog,   \* the latest setEndpoint or setApiKey call and what it threw
  classified,  \* the latest handleMcpError call: its argument and its answer
  console      \* the records written with console.debug

vars == <<apiKey, endpointId, options, calls, now, rateState, ledgerLog,
          setterLog, classified, console>>

\* calls is a sequence: call number c is the c-th one issued
Calls == DOMAIN calls

\* how one attempt ends at the transport: the timer wins the race ("timeout"),
\* fetch rejects ("failure", with the TypeError's text), the gateway answers
\* with a non-2xx status ("http"), or with a 2xx status and a body that does
\* not parse ("badjson") or parses to body ("reply"); retryAfter is the
\* Retry-After header of the answer, in seconds, when it has one
Outcome(kind, status, text, body) ==
  [kind |-> kind, status |-> status, text |-> text, body |-> body,
   retryAfter |-> NoRetryAfter]

TimeoutOutcome == Outcome("timeout", 0, "", NullBody)
FailureOutcome(text) == Outcome("failure", 0, text, NullBody)
HttpOutcome(status) == Outcome("http", status, "error page", NullBody)
RateLimitedOutcome(seconds) == [HttpOutcome(429) EXCEPT !.retryAfter = seconds]
BadJsonOutcome == Outcome("badjson", 200, JsonParseText, NullBody)
ReplyOutcome(body) == Outcome("reply", 200, "", body)
NoOutcome == Outcome("none", 0, "", NullBody)
MixedOutcome == Outcome("mixed", 0, "", NullBody)

\* One execute call: the locals of McpClient.execute (methodId, params, url,
\* request, attempt, lastError), where it stands (pc), what it gave its caller
\* (result, or error), and a record of what it did on the network: authKey is
\* the Authorization header of its latest fetch, sentTo the URL of that
\* fetch and sentBody its body, fetches the number of fetch
\* calls, settled the number of attempts that have ended, sleeps the backoff
\* delays it asked setTimeout for, last the way its latest attempt ended, and
\* every the way all its attempts ended when they all ended the same way.
\* startedAfterKey and startedAfterEndpoint are the key of the latest
\* setApiKey call and the id of the latest successful setEndpoint call made
\* before the call started ("" when there was none), keySetSince whether
\* setApiKey has been called since it started.  late counts the losers of
\* the races of its attempts that have not settled yet: the timers of the
\* attempts the transport ended (no clearTimeout), and the fetches of the
\* attempts the timer ended (no abort).
NewCall ==
  [pc |-> "new", methodId |-> "", params |-> "", url |-> <<>>, request |-> NoRequest,
   attempt |-> 0, lastError |-> NoError, result |-> "", error |-> NoError,
   authKey |-> "", sentTo |-> <<>>, sentBody |-> NoRequest, fetches |-> 0, settled |-> 0, sleeps |-> <<>>,
   last |-> NoOutcome, every |-> NoOutcome,
   startedAfterKey |-> "", keySetSince |-> FALSE, startedAfterEndpoint |-> "",
   late |-> [timer |-> 0, fetch |-> 0]]

\* console.debug(...) when options.debug is set
Debug(record) == IF options.debug THEN console \cup {record} ELSE console

\* { ...request, apiKey: '***' }: the fields of the envelope as they are, and
\* one more field apiKey beside them
MaskedRequest(request) ==
  [params |-> request.params, id |-> request.id, metadata |-> request.metadata,
   apiKey |-> "***"]

\* the record of 'MCP Request (attempt/retryAttempts):'
RequestLog(call) ==
  [label |-> "MCP Request", attempt |-> call.attempt, of |-> options.retryAttempts,
   method |-> call.methodId, url |-> call.url, params |-> MaskedRequest(call.request),
   value |-> ""]

\* the record of 'MCP Response:'
ResponseLog(value) ==
  [label |-> "MCP Response", attempt |-> 0, of |-> 0, method |-> "", url |-> << >>,
   params |-> MaskedRequest(NoRequest), value |-> value]

(***************************************************************************)
(* constructor(apiKey, endpointId?, options?)                              *)
(***************************************************************************)
Constructed(key, endpointArg, timeoutArg, retryArg, debugArg) ==
  /\ apiKey = key
  /\ endpointId = OrElseStr(endpointArg, getDefaultEndpoint.id)
  /\ options = [timeout |-> OrElseNum(timeoutArg, defaultTimeout),
                retryAttempts |-> OrElseNum(retryArg, configRetryAttempts),
                debug |-> debugArg]

(***************************************************************************)
(* execute(methodId, params)                                               *)
(***************************************************************************)
\* the body of the while loop up to `await this.executeWithTimeout(...)`:
\* an attempt that resolves the endpoint and formats the envelope anew
SendAttemptAfresh(call) ==
  LET endpoint == IF getEndpoint(endpointId).found
                    THEN getEndpoint(endpointId) ELSE getDefaultEndpoint
  IN [call EXCEPT !.pc = "pending", !.attempt = call.attempt + 1,
                  !.authKey = apiKey,
                  !.sentTo = createMethodUrl(endpoint.url, call.methodId),
                  !.sentBody = [call.request EXCEPT !.metadata.apiKey = apiKey],
                  !.fetches = call.fetches + 1]

\* attempt++, then fetch(url, ...) with the Authorization header built from
\* this.apiKey and the body JSON.stringify(request)
SendAttempt(call) ==
  [call EXCEPT !.pc = "pending", !.attempt = call.attempt + 1,
               !.authKey = apiKey, !.sentTo = call.url, !.sentBody = call.request,
               !.fetches = call.fetches + 1]

\* `throw handleMcpError(lastError || new Error('Unknown MCP error'))`
Fail(call) ==
  [call EXCEPT !.pc = "thrown",
               !.error = handleMcpError(IF call.lastError = NoError
                                          THEN PlainError("Unknown MCP error")
                                          ELSE call.lastError)]

\* a catch block that keeps the first error it saw
CatchKeepsFirst(call, error) ==
  LET caught == [call EXCEPT !.lastError = IF call.lastError = NoError THEN error ELSE @]
  IN IF ~isRetryableError(error) \/ caught.attempt >= options.retryAttempts
       THEN Fail(caught)
       ELSE [caught EXCEPT !.pc = "sleeping",
                           !.sleeps = Append(call.sleeps, backoffMs(caught.attempt))]

\* a catch block that also gives up once another call of the client has failed
CatchSharedFailure(call, error) ==
  LET caught == [call EXCEPT !.lastError = error]
  IN IF \/ ~isRetryableError(error)
        \/ caught.attempt >= options.retryAttempts
        \/ \E d \in Calls : calls[d].pc = "thrown"
       THEN Fail(caught)
       ELSE [caught EXCEPT !.pc = "sleeping",
                           !.sleeps = Append(call.sleeps, backoffMs(caught.attempt))]

\* a catch block that sleeps before it looks whether to go on
CatchSleepsFirst(call, error) ==
  LET caught == [call EXCEPT !.lastError = error,
                             !.sleeps = Append(call.sleeps, backoffMs(call.attempt))]
  IN IF ~isRetryableError(error) \/ caught.attempt >= options.retryAttempts
       THEN Fail(caught)
       ELSE [caught EXCEPT !.pc = "sleeping"]

\* the catch block of the loop, for the error an attempt ended with
Catch(call, error) ==
  LET caught == [call EXCEPT !.lastError = error]
  IN IF ~isRetryableError(error) \/ caught.attempt >= options.retryAttempts
       THEN Fail(caught)
       ELSE [caught EXCEPT !.pc = "sleeping",
                           !.sleeps = Append(call.sleeps, backoffMs(caught.attempt))]

\* the start of execute, up to its first await or its throw; suffix is what
\* Math.random().toString(36).substring(2, 15) yields
Execute(m, p, suffix) ==
  /\ LET method == getMethod(m)
         endpoint == IF getEndpoint(endpointId).found
                       THEN getEndpoint(endpointId) ELSE getDefaultEndpoint
         started == [NewCall EXCEPT
                       !.methodId = m, !.params = p,
                       !.startedAfterKey = setterLog.lastKey,
                       !.startedAfterEndpoint = setterLog.lastEndpoint,
                       !.url = createMethodUrl(endpoint.url, m),
                       !.request = formatMcpRequest(p, apiKey, NoId, NoId, now, suffix)]
     IN /\ calls' = Append(calls,
             IF ~method.found
               THEN [NewCall EXCEPT
                       !.pc = "thrown", !.methodId = m, !.params = p,
                       !.startedAfterKey = setterLog.lastKey,
                       !.startedAfterEndpoint = setterLog.lastEndpoint,
                       !.error = McpRequestError(Msg("Unknown MCP method: ", m, 0, ""))]
             ELSE IF started.attempt < options.retryAttempts
               THEN SendAttempt(started)
             ELSE Fail(started))
        /\ console' = IF method.found /\ started.attempt < options.retryAttempts
                        THEN Debug(RequestLog(SendAttempt(started)))
                        ELSE console
  /\ UNCHANGED <<apiKey, endpointId, options, now, rateState, ledgerLog, setterLog, classified>>

\* executeWithTimeout settles, and execute runs on from its await to its
\* return, its throw or its backoff sleep
Settle(c, o) ==
  /\ calls[c].pc = "pending"
  /\ LET call == [calls[c] EXCEPT
                    !.settled = calls[c].settled + 1, !.last = o,
                    !.late = IF o.kind = "timeout"
                               THEN [@ EXCEPT !.fetch = @ + 1]
                               ELSE [@ EXCEPT !.timer = @ + 1],
                    !.every = IF calls[c].every \in {NoOutcome, o} THEN o ELSE MixedOutcome]
         validated == validateMethodResponse(o.body, call.methodId)
     IN /\ calls' = [calls EXCEPT ![c] =
             CASE o.kind = "timeout" ->
                    Catch(call, McpTimeoutError(Msg("MCP request timed out after ", "", options.timeout, "ms")))
               [] o.kind = "failure" -> Catch(call, TypeError(o.text))
               [] o.kind = "http" ->
                    Catch(call, McpResponseError(Msg("MCP responded with status ", "", o.status, o.text), o.status))
               [] o.kind = "badjson" -> Catch(call, SyntaxError(o.text))
               [] o.kind = "reply" ->
                    IF validated.ok
                      THEN [call EXCEPT !.pc = "returned", !.result = validated.value]
                      ELSE Catch(call, validated.error)]
        /\ console' = IF o.kind = "reply" /\ validated.ok
                        THEN Debug(ResponseLog(validated.value))
                        ELSE console
  /\ UNCHANGED <<apiKey, endpointId, options, now, rateState, ledgerLog, setterLog, classified>>

\* a backoff promise whose resolve is never called
WakeNotResolved(c) ==
  /\ calls[c].pc = "sleeping"
  /\ UNCHANGED vars

\* the backoff timer fires: the loop tests its condition and sends again
Wake(c) ==
  /\ calls[c].pc = "sleeping"
  /\ calls' = [calls EXCEPT ![c] =
       IF calls[c].attempt < options.retryAttempts THEN SendAttempt(calls[c]) ELSE Fail(calls[c])]
  /\ console' = IF calls[c].attempt < options.retryAttempts
                  THEN Debug(RequestLog(SendAttempt(calls[c])))
                  ELSE console
  /\ UNCHANGED <<apiKey, endpointId, options, now, rateState, ledgerLog, setterLog, classified>>

\* a race whose loser is heard: the late timer ends the call with a timeout
\* error, the late fetch hands it a reply
LateSettleHeard(c, kind) ==
  /\ calls[c].late[kind] > 0
  /\ calls' = [calls EXCEPT ![c] =
       IF kind = "timer"
         THEN Fail([calls[c] EXCEPT
                      !.late.timer = @ - 1,
                      !.lastError = McpTimeoutError(
                        Msg("MCP request timed out after ", "", options.timeout, "ms"))])
         ELSE [calls[c] EXCEPT !.late.fetch = @ - 1, !.pc = "returned", !.error = NoError]]
  /\ UNCHANGED <<apiKey, endpointId, options, now, rateState, ledgerLog, setterLog,
                 classified, console>>

\* the loser of the race of an earlier attempt settles: the timer fires and
\* rejects timeoutPromise, or fetchPromise resolves or rejects.  The promise
\* of Promise.race is settled already, so nothing of execute runs.
LateSettle(c, kind) ==
  /\ calls[c].late[kind] > 0
  /\ calls' = [calls EXCEPT ![c].late[kind] = @ - 1]
  /\ UNCHANGED <<apiKey, endpointId, options, now, rateState, ledgerLog, setterLog,
                 classified, console>>

(***************************************************************************)
(* setEndpoint(endpointId) and setApiKey(apiKey).  setterLog keeps the     *)
(* latest call (op, arg), what it threw, the key of the latest setApiKey   *)
(* call (lastKey) and the id of the latest setEndpoint call that returned  *)
(* (lastEndpoint).                                                         *)
(***************************************************************************)
NoSetterLog ==
  [op |-> "none", arg |-> "", threw |-> NoError, lastKey |-> "", lastEndpoint |-> ""]

\* new Error(`Unknown MCP endpoint: ${endpointId}`)
UnknownEndpointError(id) ==
  Err("Error", Msg("Unknown MCP endpoint: ", "", 0, id), 0, NoRetryAfter)

\* a setEndpoint that assigns before it looks the endpoint up
setEndpointAssignFirst(id) ==
  /\ endpointId' = id
  /\ setterLog' = [setterLog EXCEPT
                     !.op = "setEndpoint", !.arg = id,
                     !.threw = IF getEndpoint(id).found THEN NoError ELSE UnknownEndpointError(id),
                     !.lastEndpoint = IF getEndpoint(id).found THEN id ELSE @]
  /\ UNCHANGED <<apiKey, options, calls, now, rateState, ledgerLog, classified, console>>

setEndpoint(id) ==
  /\ endpointId' = IF getEndpoint(id).found THEN id ELSE endpointId
  /\ setterLog' = [setterLog EXCEPT
                     !.op = "setEndpoint", !.arg = id,
                     !.threw = IF getEndpoint(id).found THEN NoError ELSE UnknownEndpointError(id),
                     !.lastEndpoint = IF getEndpoint(id).found THEN id ELSE @]
  /\ UNCHANGED <<apiKey, options, calls, now, rateState, ledgerLog, classified, console>>

\* a setApiKey that does not reach the field execute reads
setApiKeyNotStored(key) ==
  /\ setterLog' = [setterLog EXCEPT
                     !.op = "setApiKey", !.arg = key, !.threw = NoError, !.lastKey = key]
  /\ calls' = [c \in DOMAIN calls |-> [calls[c] EXCEPT !.keySetSince = TRUE]]
  /\ UNCHANGED <<apiKey, endpointId, options, now, rateState, ledgerLog, classified, console>>

setApiKey(key) ==
  /\ apiKey' = key
  /\ setterLog' = [setterLog EXCEPT
                     !.op = "setApiKey", !.arg = key, !.threw = NoError, !.lastKey = key]
  /\ calls' = [c \in DOMAIN calls |-> [calls[c] EXCEPT !.keySetSince = TRUE]]
  /\ UNCHANGED <<endpointId, options, now, rateState, ledgerLog, classified, console>>

(***************************************************************************)
(* handleMcpError(error), called on a failure that is not yet classified   *)
(* or on one that is.  classified keeps the argument (raw), the answer     *)
(* (out) and the answer of handleMcpError to that answer (again).          *)
(***************************************************************************)
NoClassified == [raw |-> NoError, out |-> NoError, again |-> NoError]

HandleMcpError(raw) ==
  /\ classified' = [raw |-> raw, out |-> handleMcpError(raw),
                    again |-> handleMcpError(handleMcpError(raw))]
  /\ UNCHANGED <<apiKey, endpointId, options, calls, now, rateState, ledgerLog,
                 setterLog, console>>

(***************************************************************************)
(* The rate-limit helpers, called by the holder of a ledger.  ledgerLog    *)
(* keeps the latest call: the helper, its method id, Date.now() during the *)
(* call, the answer of checkRateLimit, and n, the number of calls so far;  *)
(* for updateRateLimit also the reply, the ledger passed in as it was      *)
(* before the call (before) and as it is after it (argument).  The holder  *)
(* goes on with the ledger the helper returned.                            *)
(***************************************************************************)
NoLedgerLog ==
  [op |-> "none", methodId |-> "", time |-> 0, allowed |-> FALSE, n |-> 0,
   response |-> NullBody, before |-> << >>, argument |-> << >>]

CheckRateLimit(m) ==
  /\ ledgerLog.n < MaxLedgerOps
  /\ ledgerLog' = [op |-> "check", methodId |-> m, time |-> now,
                   allowed |-> checkRateLimit(m, rateState, now), n |-> ledgerLog.n + 1,
                   response |-> NullBody, before |-> << >>, argument |-> << >>]
  /\ UNCHANGED <<apiKey, endpointId, options, calls, now, rateState,
                 setterLog, classified, console>>

UpdateRateLimit(m, response) ==
  /\ ledgerLog.n < MaxLedgerOps
  /\ rateState' = updateRateLimit(m, rateState, response, now)
  /\ ledgerLog' = [op |-> "update", methodId |-> m, time |-> now,
                   allowed |-> FALSE, n |-> ledgerLog.n + 1, response |-> response,
                   before |-> rateState,
                   argument |-> updateRateLimitArgument(m, rateState, response, now)]
  /\ UNCHANGED <<apiKey, endpointId, options, calls, now, setterLog, classified, console>>

\* time passes: a millisecond, or a whole window
Advance(ms) ==
  /\ IF ms = 1 THEN now % WindowMs < MaxNow ELSE now + ms <= MaxWindows * WindowMs
  /\ now' = now + ms
  /\ UNCHANGED <<apiKey, endpointId, options, calls, rateState, ledgerLog, setterLog, classified, console>>

\* a client just constructed, with arguments drawn from the given sets
ClientInit(keys, endpointArgs, timeoutArgs, retryArgs, debugArgs) ==
  /\ \E key \in keys, e \in endpointArgs, t \in timeoutArgs, r \in retryArgs, d \in debugArgs :
       Constructed(key, e, t, r, d)
  /\ calls = << >>
  /\ now = 0
  /\ rateState = << >>
  /\ ledgerLog = NoLedgerLog
  /\ setterLog = NoSetterLog
  /\ classified = NoClassified
  /\ console = {}

(***************************************************************************)
(* Spec: the client under a flaky gateway, where an attempt can end in     *)
(* every way.  "staging" is no endpoint of the registry, "getRichList" no  *)
(* method of it.  A retryAttempts argument of 0 is falsy, so the           *)
(* constructor takes the configured 3.                                     *)
(***************************************************************************)
Keys == {"key-A", "key-B"}
EndpointArgs == {NoId, "local-development", "staging"}
TimeoutArgs == {0, 5000}
RetryArgs == {-1, 0, 1, 2}
MethodArgs == {"getAccountInfo", "getRichList"}
ParamArgs == {"address-1"}
Suffixes == {"k3x9"}
Statuses == {401, 403, 404, 408, 429, 500, 502, 503, 504}
Bodies ==
  {NullBody, EmptyEnvelope, ErrorEnvelope(0, ""), ErrorEnvelope(-32601, "Method not found"),
   ErrorEnvelope(429, "Too many requests"), ResultEnvelope("lamports-5"), ResultEnvelope(""),
   RateLimitedEnvelope("lamports-7", 1, 90, 60),
   BothEnvelope(-32000, "Server error", "lamports-9")}
Outcomes ==
  {TimeoutOutcome, BadJsonOutcome}
    \cup {FailureOutcome(t) : t \in FetchFailureTexts}
    \cup {HttpOutcome(s) : s \in Statuses}
    \cup {ReplyOutcome(b) : b \in Bodies}

Init == ClientInit({"key-A"}, EndpointArgs, TimeoutArgs, RetryArgs, {FALSE})

Next ==
  \/ /\ Len(calls) < MaxCalls
     /\ \E m \in MethodArgs, p \in ParamArgs, x \in Suffixes : Execute(m, p, x)
  \/ \E c \in Calls, o \in Outcomes : Settle(c, o)
  \/ \E c \in Calls : Wake(c)

Spec == Init /\ [][Next]_vars

(***************************************************************************)
(* SpecBackoff: a client built with retryAttempts = 6, long enough for the *)
(* backoff delay to reach its cap, under a gateway that times out, is      *)
(* overloaded or answers.                                                  *)
(***************************************************************************)
BackoffOutcomes ==
  {TimeoutOutcome, HttpOutcome(503), RateLimitedOutcome(30),
   ReplyOutcome(ResultEnvelope("lamports-5"))}

InitBackoff == ClientInit(Keys, {NoId}, {0}, {5, 6}, {FALSE})

NextBackoff ==
  \/ /\ Len(calls) < MaxCalls
     /\ \E m \in MethodArgs, p \in ParamArgs, x \in Suffixes : Execute(m, p, x)
  \/ \E c \in Calls, o \in BackoffOutcomes : Settle(c, o)
  \/ \E c \in Calls : Wake(c)

SpecBackoff == InitBackoff /\ [][NextBackoff]_vars

(***************************************************************************)
(* SpecIds: several calls on one client while the clock ticks, with the    *)
(* random suffix of the request id drawn by each call.                     *)
(***************************************************************************)
IdParams == {"address-1", "address-2"}
IdSuffixes == {"k3x9", "p0q7"}
IdOutcomes == {TimeoutOutcome, ReplyOutcome(ResultEnvelope("lamports-5"))}

InitIds == ClientInit({"key-A"}, {NoId}, {0}, {1}, {FALSE})

NextIds ==
  \/ /\ Len(calls) < MaxSharedCalls
     /\ \E p \in IdParams, x \in IdSuffixes : Execute("getAccountInfo", p, x)
  \/ \E c \in Calls, o \in IdOutcomes : Settle(c, o)
  \/ Advance(1)

SpecIds == InitIds /\ [][NextIds]_vars

(***************************************************************************)
(* SpecLedger: a holder of a ledger calls the rate-limit helpers for two   *)
(* methods while time passes.  The replies carry no rate-limit snapshot,   *)
(* or one of a limit of 60 with 2, 1 or 0 calls remaining and a reset at   *)
(* second 60 or 90.                                                        *)
(***************************************************************************)
LedgerMethods == {"getAccountInfo", "getBalance"}
LedgerReplies ==
  {ResultEnvelope("lamports-5")}
    \cup {RateLimitedEnvelope("lamports-7", left, reset, 60) : left \in {0, 1, 2}, reset \in {60, 90}}

InitLedger == ClientInit({"key-A"}, {NoId}, {0}, {0}, {FALSE})

NextLedger ==
  \/ \E m \in LedgerMethods : CheckRateLimit(m)
  \/ \E m \in LedgerMethods, r \in LedgerReplies : UpdateRateLimit(m, r)
  \/ \E ms \in {1, WindowMs} : Advance(ms)

SpecLedger == InitLedger /\ [][NextLedger]_vars

(***************************************************************************)
(* SpecClassify: handleMcpError is given failures of every shape: a        *)
(* TypeError, a SyntaxError, a plain Error or a FetchError, with a message *)
(* that names the network, fetch or JSON or none of them, with or without  *)
(* status, statusCode and a retry-after header (in seconds); and failures  *)
(* that are classified already.                                            *)
(***************************************************************************)
RawFailure(cls, text, status, statusCode, header) ==
  [Err(cls, RawMsg(text), statusCode, NoRetryAfter) EXCEPT
     !.status = status, !.retryAfterHeader = header]

RawFailures ==
  {RawFailure(cls, text, status, statusCode, header) :
     cls \in {"TypeError", "SyntaxError", "Error", "FetchError"},
     text \in {"network error", "Failed to fetch", JsonParseText, "boom", ""},
     status \in {0, 401, 403, 429, 500},
     statusCode \in {0, 404},
     header \in {NoRetryAfter, 30}}

ClassifiedFailures ==
  {McpTimeoutError(Msg("MCP request timed out after ", "", 30000, "ms")),
   McpResponseError(Msg("MCP responded with status ", "", 401, "error page"), 401),
   McpResponseError(Msg("MCP responded with status ", "", 429, "error page"), 429),
   McpRequestError(Msg("Unknown MCP method: ", "getRichList", 0, "")),
   McpConnectionError(Msg("Failed to connect to MCP: ", "", 0, "Failed to fetch"))}

InitClassify == ClientInit({"key-A"}, {NoId}, {0}, {0}, {FALSE})

NextClassify == \E raw \in RawFailures \cup ClassifiedFailures : HandleMcpError(raw)

SpecClassify == InitClassify /\ [][NextClassify]_vars

(***************************************************************************)
(* SpecPair: several execute calls in flight on one client at once, each   *)
(* with its own transport outcomes: a timeout (retried), a 404 (not        *)
(* retried) or a reply.                                                    *)
(***************************************************************************)
PairOutcomes == {TimeoutOutcome, HttpOutcome(404), ReplyOutcome(ResultEnvelope("lamports-5"))}

InitPair == ClientInit({"key-A"}, {NoId}, {0}, {2}, {FALSE})

NextPair ==
  \/ /\ Len(calls) < MaxSharedCalls
     /\ \E p \in IdParams, x \in Suffixes : Execute("getAccountInfo", p, x)
  \/ \E c \in Calls, o \in PairOutcomes : Settle(c, o)
  \/ \E c \in Calls : Wake(c)

SpecPair == InitPair /\ [][NextPair]_vars

(***************************************************************************)
(* SpecRace: the client with the losers of its races settling late: the    *)
(* reply of an attempt arrives after its timer has fired, or the timer     *)
(* fires after the reply has arrived, at any later moment of the call or   *)
(* after the call.                                                         *)
(***************************************************************************)
RaceOutcomes ==
  {TimeoutOutcome, HttpOutcome(503), HttpOutcome(404),
   ReplyOutcome(ResultEnvelope("lamports-5"))}

InitRace == ClientInit({"key-A"}, {NoId}, TimeoutArgs, {1, 2, 3}, {FALSE})

NextRace ==
  \/ /\ Len(calls) < MaxCalls
     /\ \E p \in ParamArgs, x \in Suffixes : Execute("getAccountInfo", p, x)
  \/ \E c \in Calls, o \in RaceOutcomes : Settle(c, o)
  \/ \E c \in Calls : Wake(c)
  \/ \E c \in Calls, kind \in {"timer", "fetch"} : LateSettle(c, kind)

SpecRace == InitRace /\ [][NextRace]_vars

(***************************************************************************)
(* SpecLive: the client under a gateway that may never answer, with timers *)
(* that fire: the timeout timer of a pending attempt ends the attempt      *)
(* unless the transport ends it first (setTimeout in executeWithTimeout),  *)
(* and the backoff timer of a sleeping call wakes it (setTimeout in the    *)
(* catch block).                                                           *)
(***************************************************************************)
LiveOutcomes ==
  {TimeoutOutcome, BadJsonOutcome, FailureOutcome("network error"),
   HttpOutcome(404), HttpOutcome(503),
   ReplyOutcome(ResultEnvelope("lamports-5")),
   ReplyOutcome(ErrorEnvelope(-32601, "Method not found"))}

InitLive == ClientInit(Keys, {NoId}, TimeoutArgs, RetryArgs, {FALSE})

NextLive ==
  \/ /\ Len(calls) < MaxCalls
     /\ \E m \in MethodArgs, p \in ParamArgs, x \in Suffixes : Execute(m, p, x)
  \/ \E c \in Calls, o \in LiveOutcomes : Settle(c, o)
  \/ \E c \in Calls : Wake(c)

TimersFire ==
  \A c \in 1..MaxCalls :
    /\ WF_vars(c \in Calls /\ Settle(c, TimeoutOutcome))
    /\ WF_vars(c \in Calls /\ Wake(c))

SpecLive == InitLive /\ [][NextLive]_vars /\ TimersFire

(***************************************************************************)
(* SpecSession: a client built for the default endpoint with debug on,     *)
(* whose owner changes the endpoint and the key at any moment, before,     *)
(* during and after execute calls.  "staging" is no endpoint of the        *)
(* registry.                                                               *)
(***************************************************************************)
SessionEndpoints == {"local-development", "staging"}
SessionOutcomes == {TimeoutOutcome, ReplyOutcome(ResultEnvelope("lamports-5"))}

InitSession == ClientInit({"key-A"}, {NoId}, {0}, {2}, {TRUE})

NextSession ==
  \/ /\ Len(calls) < MaxCalls
     /\ \E p \in ParamArgs, x \in Suffixes : Execute("getAccountInfo", p, x)
  \/ \E c \in Calls, o \in SessionOutcomes : Settle(c, o)
  \/ \E c \in Calls : Wake(c)
  \/ \E id \in SessionEndpoints : setEndpoint(id)
  \/ \E key \in Keys : setApiKey(key)

SpecSession == InitSession /\ [][NextSession]_vars

(***************************************************************************)
(* Properties of execute under the flaky gateway (Spec).                   *)
(***************************************************************************)
MethodIds == {methods[i].id : i \in DOMAIN methods}

Ended(call) == call.pc \in {"returned", "thrown"}

\* a reply body that is a valid envelope: a result and no error
ValidEnvelope(body) == ~body.isNull /\ ~body.hasError /\ body.hasResult

\* C1: a call for a method id that is not in the registry has failed with a
\* request-class error without any network attempt, retry or sleep, whatever
\* credential, endpoint and options the client was built with.
C1_UnknownMethodFailsFast ==
  \A c \in Calls :
    calls[c].methodId \notin MethodIds =>
      /\ calls[c].pc = "thrown"
      /\ calls[c].error.cls = "McpRequestError"
      /\ calls[c].fetches = 0
      /\ calls[c].attempt = 0
      /\ calls[c].sleeps = << >>

C1_Witness ==
  \E c \in Calls :
    /\ calls[c].methodId = "getRichList"
    /\ calls[c].pc = "thrown"
    /\ endpointId = "staging"
    /\ options.retryAttempts = 2

\* C2: when every attempt of a call times out and retryAttempts = N >= 1, the
\* call does not end before its N-th attempt, and it ends with exactly N
\* network attempts and a timeout-class error.
C2_AlwaysTimeout ==
  \A c \in Calls :
    (calls[c].every = TimeoutOutcome /\ options.retryAttempts >= 1) =>
      IF Ended(calls[c])
        THEN /\ calls[c].pc = "thrown"
             /\ calls[c].fetches = options.retryAttempts
             /\ calls[c].error.cls = "McpTimeoutError"
        ELSE calls[c].fetches <= options.retryAttempts

C2_Witness ==
  \E c \in Calls :
    /\ calls[c].every = TimeoutOutcome
    /\ calls[c].pc = "thrown"
    /\ calls[c].fetches = 3

\* C3: when every attempt of a call is answered with the same non-2xx status s,
\* the call ends after exactly retryAttempts attempts if s is one of 408, 429,
\* 500, 502, 503, 504 and after exactly one attempt otherwise, and the error
\* it raises carries status code s.
C3_ConstantStatus ==
  \A c \in Calls :
    (calls[c].every.kind = "http" /\ Ended(calls[c])) =>
      /\ calls[c].pc = "thrown"
      /\ calls[c].error.statusCode = calls[c].every.status
      /\ calls[c].fetches =
           IF calls[c].every.status \in {408, 429, 500, 502, 503, 504}
             THEN options.retryAttempts ELSE 1

C3_Witness ==
  \E c \in Calls :
    calls[c].every = HttpOutcome(503) /\ calls[c].pc = "thrown" /\ calls[c].fetches = 3

\* C4: when an attempt of a call receives a 2xx reply with a valid envelope,
\* the call returns that reply's result payload, it has made as many network
\* attempts as have ended (the k-th attempt is its last), each of the k - 1
\* before it was followed by one sleep, and a call that has returned has no
\* request outstanding.
C4_ReturnsKthReply ==
  \A c \in Calls :
    /\ (calls[c].last.kind = "reply" /\ ValidEnvelope(calls[c].last.body)) =>
         /\ calls[c].pc = "returned"
         /\ calls[c].result = calls[c].last.body.result
    /\ calls[c].pc = "returned" =>
         /\ calls[c].last.kind = "reply" /\ ValidEnvelope(calls[c].last.body)
         /\ calls[c].fetches = calls[c].settled
         /\ calls[c].fetches <= options.retryAttempts
         /\ Len(calls[c].sleeps) = calls[c].fetches - 1

C4_Witness ==
  \E c \in Calls :
    /\ calls[c].pc = "returned"
    /\ calls[c].fetches = 2
    /\ calls[c].every = MixedOutcome
    /\ calls[c].result = "lamports-7"

\* C5: in the step in which a call for method m returns, the ledger entry of
\* m is updated from the reply: the ledger becomes the one updateRateLimit
\* gives for that reply.
C5_LedgerUpdatedOnReturn ==
  [][\A c \in DOMAIN calls :
       (calls[c].pc = "pending" /\ calls'[c].pc = "returned") =>
         /\ calls[c].methodId \in DOMAIN rateState'
         /\ rateState' = updateRateLimit(calls[c].methodId, rateState, calls'[c].last.body, now)]_vars

\* C6: when every attempt of a call ends in the same transport-level failure
\* and retryAttempts = N >= 1, the call ends after exactly N attempts with a
\* connection-class error.
C6_TransportFailureRetried ==
  \A c \in Calls :
    (calls[c].every.kind = "failure" /\ options.retryAttempts >= 1 /\ Ended(calls[c])) =>
      /\ calls[c].pc = "thrown"
      /\ calls[c].fetches = options.retryAttempts
      /\ calls[c].error.cls = "McpConnectionError"

\* C7: for a 2xx reply whose body is an envelope: with an error field the
\* attempt fails with a response-class error carrying that field's code and
\* message; with neither result nor error it fails with the response-class
\* missing-result error, which ends the call at once (after one attempt when
\* it was the first); otherwise the call returns the result payload.
C7_EnvelopeValidation ==
  \A c \in Calls :
    LET call == calls[c]
        body == call.last.body
    IN (call.last.kind = "reply" /\ ~body.isNull) =>
         IF body.hasError
           THEN /\ call.pc # "returned"
                /\ call.lastError.cls = "McpResponseError"
                /\ call.lastError.statusCode = body.code
                /\ body.message # "" => call.lastError.message.inner = body.message
         ELSE IF ~body.hasResult
           THEN /\ call.pc = "thrown"
                /\ call.error.cls = "McpResponseError"
                /\ call.error.message.text = "Missing result in MCP response for method: "
                /\ call.fetches = call.settled
                /\ call.every = call.last => call.fetches = 1
         ELSE call.pc = "returned" /\ call.result = body.result

C7_Witness ==
  \E c \in Calls :
    calls[c].last = ReplyOutcome(EmptyEnvelope) /\ calls[c].pc = "thrown" /\ calls[c].fetches = 1

C8_DistinctRequestIds ==
  \A c, d \in Calls :
    c # d =>
      /\ calls[c].request.id # calls[d].request.id
      /\ calls[c].params = calls[d].params => calls[c].request.params = calls[d].request.params

(***************************************************************************)
(* The rate-limit helpers (SpecLedger).                                    *)
(***************************************************************************)
\* C10: checkRateLimit answers true when the ledger has no entry for the
\* method, false when the entry's count has reached the ceiling of 60 and the
\* time is not past the entry's reset time, and true when the time is past
\* the reset time, whatever the count.
C10_CheckRateLimit ==
  ledgerLog.op = "check" =>
    LET m == ledgerLog.methodId
        t == ledgerLog.time
    IN /\ m \notin DOMAIN rateState => ledgerLog.allowed
       /\ m \in DOMAIN rateState =>
            /\ t > rateState[m].resetTime => ledgerLog.allowed
            /\ (t <= rateState[m].resetTime /\ rateState[m].count >= 60) => ~ledgerLog.allowed

\* the count had reached the ceiling, the window has run out, and the answer
\* is true again
C10_Witness ==
  /\ ledgerLog.op = "check"
  /\ ledgerLog.methodId \in DOMAIN rateState
  /\ rateState[ledgerLog.methodId].count >= 60
  /\ ledgerLog.time > rateState[ledgerLog.methodId].resetTime
  /\ ledgerLog.allowed

\* C11: updateRateLimit leaves its ledger argument as it was: after the call
\* the argument has the keys it had, and each of its entries the count and
\* the resetTime it had.
C11_ArgumentNotMutated ==
  ledgerLog.op = "update" =>
    /\ DOMAIN ledgerLog.argument = DOMAIN ledgerLog.before
    /\ \A m \in DOMAIN ledgerLog.before :
         /\ ledgerLog.argument[m].count = ledgerLog.before[m].count
         /\ ledgerLog.argument[m].resetTime = ledgerLog.before[m].resetTime

\* C12: the ledger updateRateLimit returns has the entries of the input
\* ledger for every other method, and for the method itself
\* {limit - remaining, reset * 1000} when the reply has a rate-limit snapshot,
\* else the previous entry with count + 1 and the same resetTime, or
\* {1, now + 60000} when there was no previous entry.
C12_ReturnedLedger ==
  ledgerLog.op = "update" =>
    LET m == ledgerLog.methodId
        old == ledgerLog.before
        r == ledgerLog.response
    IN /\ DOMAIN rateState = DOMAIN old \cup {m}
       /\ \A x \in DOMAIN old : x # m => rateState[x] = old[x]
       /\ rateState[m] =
            IF r.hasRateLimit
              THEN [count |-> r.limit - r.remaining, resetTime |-> r.reset * 1000]
            ELSE IF m \in DOMAIN old
              THEN [count |-> old[m].count + 1, resetTime |-> old[m].resetTime]
            ELSE [count |-> 1, resetTime |-> ledgerLog.time + 60000]

\* a snapshot has replaced an entry that counted calls, next to the entry of
\* another method
C12_Witness ==
  /\ ledgerLog.op = "update"
  /\ ledgerLog.response.hasRateLimit
  /\ DOMAIN ledgerLog.before = LedgerMethods
  /\ ledgerLog.before[ledgerLog.methodId].count = 1
  /\ rateState[ledgerLog.methodId].count = 59

\* C13: handleMcpError gives every failure one class of the taxonomy, by the
\* first rule that matches: a classified failure comes back unchanged (so
\* classifying twice gives what classifying once gives); a network-layer
\* exception is a connection error; a failure whose name or message names
\* fetch is a connection error; malformed JSON is a response error; status
\* 401 or 403 is an auth error; status 429 is a rate-limit error with the
\* retry-after hint; any other status is a response error with that status;
\* anything else is the unknown error.  The message of the failure is kept.
C13_FirstMatchingRule ==
  classified.raw # NoError =>
    LET raw == classified.raw
        out == classified.out
        isClassified == raw.cls \in McpErrorClasses
        isNetwork == raw.cls = "TypeError" /\ raw.message.text = "network error"
        isFetch == raw.name = "FetchError" \/ raw.message.text = "Failed to fetch"
        isJson == raw.name = "SyntaxError" /\ raw.message.text = JsonParseText
        status == IF raw.status # 0 THEN raw.status ELSE raw.statusCode
        rule == CASE isClassified -> 1
                  [] ~isClassified /\ isNetwork -> 2
                  [] ~isClassified /\ ~isNetwork /\ isFetch -> 3
                  [] ~isClassified /\ ~isNetwork /\ ~isFetch /\ isJson -> 4
                  [] OTHER -> IF status \in {401, 403} THEN 5
                              ELSE IF status = 429 THEN 6
                              ELSE IF status # 0 THEN 7 ELSE 8
    IN /\ out.cls \in McpErrorClasses
       /\ classified.again = out
       /\ rule = 1 => out = raw
       /\ rule \in {2, 3} => out.cls = "McpConnectionError"
       /\ rule = 4 => out.cls = "McpResponseError"
       /\ rule = 5 => out.cls = "McpAuthError"
       /\ rule = 6 => out.cls = "McpRateLimitError" /\ out.retryAfter = raw.retryAfterHeader
       /\ rule = 7 => out.cls = "McpResponseError" /\ out.statusCode = status
       /\ rule = 8 => out.cls = "McpError"
       /\ rule # 1 /\ raw.message.text # "" => out.message.inner = raw.message.text

\* a FetchError that carries status 403: the fetch rule comes first
C13_Witness ==
  /\ classified.raw.name = "FetchError"
  /\ classified.raw.status = 403
  /\ classified.raw.message.text = "boom"
  /\ classified.out.cls = "McpConnectionError"
  /\ classified.out.message.inner = "boom"

\* C16: when the gateway answers 401 or 403, execute fails after exactly one
\* attempt with an error of the auth class; when it answers 429 to every
\* attempt, execute retries until its attempts are used up and fails with an
\* error of the rate-limit class.
C16_AuthAndRateLimitClasses ==
  \A c \in Calls :
    (calls[c].pc = "thrown" /\ calls[c].every.kind = "http") =>
      /\ calls[c].every.status \in {401, 403} =>
           calls[c].fetches = 1 /\ calls[c].error.cls = "McpAuthError"
      /\ calls[c].every.status = 429 =>
           /\ calls[c].fetches = options.retryAttempts
           /\ calls[c].error.cls = "McpRateLimitError"

\* C17: after an answer 429 that carries a retry-after hint of r seconds, the
\* backoff sleep before the next attempt lasts at least r seconds.
C17_RetryAfterHonored ==
  \A c \in Calls :
    (/\ calls[c].pc = "sleeping"
     /\ calls[c].last.kind = "http"
     /\ calls[c].last.status = 429
     /\ calls[c].last.retryAfter # NoRetryAfter) =>
      calls[c].sleeps[Len(calls[c].sleeps)] >= calls[c].last.retryAfter * 1000

\* C18: an execute call ends in exactly one way: it returns a result, or it
\* raises one error.  That error is a member of the taxonomy, it is the
\* classification of the failure of the last attempt and carries that
\* failure's message; the failures of earlier attempts do not show in it.
C18_OneOutcome ==
  \A c \in Calls :
    LET call == calls[c]
        o == call.last
    IN /\ call.pc = "returned" => call.error = NoError
       /\ call.pc = "thrown" =>
            /\ call.result = ""
            /\ call.error.cls \in McpErrorClasses
            /\ call.settled > 0 =>
                 CASE o.kind = "timeout" -> call.error.cls = "McpTimeoutError"
                   [] o.kind = "failure" ->
                        /\ call.error.cls \in {"McpConnectionError", "McpError"}
                        /\ call.error.message.inner = o.text
                   [] o.kind = "http" ->
                        /\ call.error.cls = "McpResponseError"
                        /\ call.error.statusCode = o.status
                        /\ call.error.message.num = o.status
                        /\ call.error.message.inner = o.text
                   [] o.kind = "badjson" ->
                        /\ call.error.cls = "McpResponseError"
                        /\ call.error.message.inner = o.text
                   [] o.kind = "reply" ->
                        /\ call.error.cls = "McpResponseError"
                        /\ ~ValidEnvelope(o.body)
                        /\ o.body.hasError =>
                             /\ call.error.message.inner = OrElseStr(o.body.message, "Unknown error")
                             /\ call.error.statusCode = o.body.code

\* a call whose first attempt timed out has failed on the 404 of its second
C18_Witness ==
  \E c \in Calls :
    /\ calls[c].pc = "thrown"
    /\ calls[c].settled = 2
    /\ calls[c].every = MixedOutcome
    /\ calls[c].last = HttpOutcome(404)
    /\ calls[c].error.statusCode = 404
    /\ calls[c].sleeps = <<1000>>

\* C20: every execute call that was started completes in the end, whatever
\* the transport does, a transport that never answers included, as long as
\* the timers fire (SpecLive).
C20_EveryCallCompletes ==
  \A c \in 1..MaxCalls : (c \in Calls) ~> (c \in Calls /\ Ended(calls[c]))

\* a call has given up after the timer ended each of its three attempts
C20_Witness ==
  \E c \in Calls :
    /\ calls[c].pc = "thrown"
    /\ calls[c].every = TimeoutOutcome
    /\ calls[c].fetches = 3
    /\ calls[c].sleeps = <<1000, 2000>>
    /\ calls[c].error.cls = "McpTimeoutError"

(***************************************************************************)
(* Properties of the setters and of the debug log (SpecSession).           *)
(***************************************************************************)
EndpointIds == {endpoints[i].id : i \in DOMAIN endpoints}
UrlOf(id) == endpoints[CHOOSE i \in DOMAIN endpoints : endpoints[i].id = id].url

\* C14: setEndpoint with an id the registry does not have fails with an error
\* and leaves the active endpoint, the credential and the options as they
\* were; with an id it has, it makes that endpoint the active one, and an
\* execute call started afterwards uses that endpoint.
C14_SetEndpoint ==
  [][/\ (setterLog' # setterLog /\ setterLog'.op = "setEndpoint") =>
          IF setterLog'.arg \in EndpointIds
            THEN setterLog'.threw = NoError /\ endpointId' = setterLog'.arg
            ELSE /\ setterLog'.threw # NoError
                 /\ UNCHANGED <<endpointId, apiKey, options>>
     /\ (Len(calls') = Len(calls) + 1 /\ setterLog.lastEndpoint # "") =>
          LET started == calls'[Len(calls')]
          IN started.methodId \in MethodIds =>
               /\ started.url = <<UrlOf(setterLog.lastEndpoint), "/rpc/", started.methodId>>
               /\ started.sentTo = started.url]_vars

\* setEndpoint("staging") has thrown after a call went to the endpoint an
\* earlier setEndpoint selected
C14_Witness ==
  /\ setterLog.op = "setEndpoint"
  /\ setterLog.arg = "staging"
  /\ setterLog.threw # NoError
  /\ endpointId = "local-development"
  /\ \E c \in Calls : /\ calls[c].startedAfterEndpoint = "local-development"
                      /\ calls[c].sentTo[1] = "http://localhost:3001/mcp"

\* C15: an execute call started after setApiKey(k) returned, with no setApiKey
\* call since, sends k as its credential in each of its attempts; an execute
\* call started after a setEndpoint(e) that returned sends each of its
\* attempts to the URL of e.
C15_SettersTakeEffect ==
  \A c \in Calls :
    calls[c].fetches > 0 =>
      /\ (calls[c].startedAfterKey # "" /\ ~calls[c].keySetSince) =>
           /\ calls[c].authKey = calls[c].startedAfterKey
           /\ calls[c].request.metadata.apiKey = calls[c].startedAfterKey
      /\ calls[c].startedAfterEndpoint # "" =>
           calls[c].sentTo = <<UrlOf(calls[c].startedAfterEndpoint), "/rpc/", calls[c].methodId>>

\* a call started after setApiKey("key-B") and setEndpoint("local-development")
\* has made its second attempt
C15_Witness ==
  \E c \in Calls :
    /\ calls[c].startedAfterKey = "key-B"
    /\ ~calls[c].keySetSince
    /\ calls[c].startedAfterEndpoint = "local-development"
    /\ calls[c].fetches = 2
    /\ calls[c].authKey = "key-B"

\* C19: with debug on, no record of the debug log has the credential in
\* clear in any of its fields.
C19_NoCredentialInLog ==
  \A rec \in console :
    /\ rec.method \notin Keys
    /\ rec.value \notin Keys
    /\ rec.params.params \notin Keys
    /\ rec.params.apiKey \notin Keys
    /\ rec.params.metadata.apiKey \notin Keys

(***************************************************************************)
(* Properties of the race of an attempt (SpecRace).                        *)
(***************************************************************************)
Outstanding(call) == call.late.timer + call.late.fetch

\* C21: the side of the race that settles first decides the attempt; when the
\* loser settles later (the reply after the timer, or the timer after the
\* reply), the outcome of the attempt, the number of attempts and the result
\* or error of the call stay as they are.
C21_LoserChangesNothing ==
  [][\A c \in Calls :
       /\ calls'[c].settled = calls[c].settled + 1 =>
            /\ calls'[c].late.fetch =
                 calls[c].late.fetch + (IF calls'[c].last.kind = "timeout" THEN 1 ELSE 0)
            /\ calls'[c].late.timer =
                 calls[c].late.timer + (IF calls'[c].last.kind = "timeout" THEN 0 ELSE 1)
            /\ calls'[c].last.kind = "timeout" =>
                 calls'[c].lastError.cls = "McpTimeoutError"
            /\ calls'[c].last.kind = "http" =>
                 /\ calls'[c].lastError.cls = "McpResponseError"
                 /\ calls'[c].lastError.statusCode = calls'[c].last.status
            /\ calls'[c].last.kind = "reply" =>
                 /\ calls'[c].pc = "returned"
                 /\ calls'[c].result = calls'[c].last.body.result
       /\ Outstanding(calls'[c]) < Outstanding(calls[c]) =>
            /\ calls'[c].pc = calls[c].pc
            /\ calls'[c].last = calls[c].last
            /\ calls'[c].settled = calls[c].settled
            /\ calls'[c].attempt = calls[c].attempt
            /\ calls'[c].fetches = calls[c].fetches
            /\ calls'[c].sleeps = calls[c].sleeps
            /\ calls'[c].lastError = calls[c].lastError
            /\ calls'[c].result = calls[c].result
            /\ calls'[c].error = calls[c].error]_vars

\* a call whose first attempt timed out has returned the reply of its second
\* attempt, and the late reply of the first and the timer of the second have
\* both settled since
C21_Witness ==
  \E c \in Calls :
    /\ calls[c].pc = "returned"
    /\ calls[c].settled = 2
    /\ calls[c].every = MixedOutcome
    /\ calls[c].result = "lamports-5"
    /\ Outstanding(calls[c]) = 0

(***************************************************************************)
(* Properties of the ledger under calls on one client (SpecIds).           *)
(***************************************************************************)
\* the count the ledger holds for a method, 0 when it has no entry for it
Count(m) == IF m \in DOMAIN rateState THEN rateState[m].count ELSE 0

\* the execute calls of a method that have returned
Completed(m) == Cardinality({c \in Calls : calls[c].methodId = m /\ calls[c].pc = "returned"})

\* C22: each completed call updates the ledger by a read-modify-write that is
\* not synchronized, so when two calls of one method have completed with
\* replies that carry no rate-limit snapshot, an update may be lost but not
\* both: the count of the method is at least 1 and never more than the
\* number of completed calls.
C22_UndercountOnly ==
  \A m \in MethodIds :
    Completed(m) = 2 => Count(m) >= 1 /\ Count(m) <= Completed(m)

(***************************************************************************)
(* Properties of expired ledger entries (SpecLedger).                      *)
(***************************************************************************)
\* C23: an entry whose reset time has passed counts as fresh for every ledger
\* operation: checkRateLimit answers true for it, and an updateRateLimit
\* without a rate-limit snapshot restarts it at count 1 with a window of 60
\* seconds from now, instead of adding to the old count under the old reset
\* time.
C23_ExpiredEntryIsFresh ==
  LET m == ledgerLog.methodId
  IN /\ (/\ ledgerLog.op = "check"
         /\ m \in DOMAIN rateState
         /\ ledgerLog.time > rateState[m].resetTime) => ledgerLog.allowed
     /\ (/\ ledgerLog.op = "update"
         /\ ~ledgerLog.response.hasRateLimit
         /\ m \in DOMAIN ledgerLog.before
         /\ ledgerLog.time > ledgerLog.before[m].resetTime) =>
          rateState[m] = [count |-> 1, resetTime |-> ledgerLog.time + 60000]

(***************************************************************************)
(* Properties of calls in flight together (SpecPair).                      *)
(***************************************************************************)
\* whether the way an attempt ended is one execute retries
RetriedOutcome(o) ==
  \/ o.kind = "timeout"
  \/ o.kind = "http" /\ o.status \in {408, 429, 500, 502, 503, 504}
  \/ o.kind = "failure" /\ o.text = "network error"

\* C24: execute calls interleaved on one client are independent: a step of
\* one call changes no other call, and what a call does when one of its
\* attempts ends (return, retry or fail, and with which result or error)
\* follows from the way that attempt ended and the number of attempts the
\* call itself has made, whatever the other calls have done.
C24_CallsIndependent ==
  [][\A c \in Calls :
       calls'[c] # calls[c] =>
         /\ \A d \in Calls \ {c} : calls'[d] = calls[d]
         /\ calls'[c].settled = calls[c].settled + 1 =>
              LET o == calls'[c].last
              IN /\ calls'[c].attempt = calls[c].attempt
                 /\ calls'[c].fetches = calls[c].fetches
                 /\ calls'[c].pc =
                      IF o.kind = "reply" /\ ValidEnvelope(o.body) THEN "returned"
                      ELSE IF RetriedOutcome(o) /\ calls[c].attempt < options.retryAttempts
                        THEN "sleeping"
                      ELSE "thrown"
                 /\ calls'[c].pc = "returned" => calls'[c].result = o.body.result
                 /\ (calls'[c].pc = "thrown" /\ o.kind = "http") =>
                      calls'[c].error.statusCode = o.status
                 /\ (calls'[c].pc = "thrown" /\ o.kind = "timeout") =>
                      calls'[c].error.cls = "McpTimeoutError"
         /\ calls[c].pc = "sleeping" =>
              /\ calls'[c].pc = "pending"
              /\ calls'[c].attempt = calls[c].attempt + 1
              /\ calls'[c].fetches = calls[c].fetches + 1]_vars

\* the first call is waiting to retry after the second call has failed
C24_Witness ==
  /\ Len(calls) >= 2
  /\ calls[1].pc = "sleeping"
  /\ calls[1].fetches = 1
  /\ calls[2].pc = "thrown"
  /\ calls[2].last = HttpOutcome(404)

(***************************************************************************)
(* Properties of a call while the setters are called (SpecSession).        *)
(***************************************************************************)
\* C25: in every attempt of every execute call, the credential of the
\* Authorization header is the credential of the envelope's metadata, also
\* when setApiKey is called between two attempts of the call.
C25_HeaderMatchesEnvelope ==
  \A c \in Calls :
    calls[c].fetches > 0 => calls[c].authKey = calls[c].request.metadata.apiKey

\* C26: the URL and the envelope of an execute call are computed once,
\* before its first attempt: every attempt of the call is sent to the same
\* URL with the same request id, timestamp, params and metadata, also when
\* setEndpoint or setApiKey is called while the call is in flight.
C26_ComputedOnce ==
  [][\A c \in Calls :
       /\ calls'[c].url = calls[c].url
       /\ calls'[c].request = calls[c].request
       /\ (calls[c].fetches > 0 /\ calls'[c].fetches = calls[c].fetches + 1) =>
            /\ calls'[c].sentTo = calls[c].sentTo
            /\ calls'[c].sentBody.id = calls[c].sentBody.id
            /\ calls'[c].sentBody.params = calls[c].sentBody.params
            /\ calls'[c].sentBody.metadata = calls[c].sentBody.metadata]_vars

\* a call started on the default endpoint with key-A has sent its second
\* attempt there, with key-A in the envelope, after setEndpoint and setApiKey
\* changed both
C26_Witness ==
  \E c \in Calls :
    /\ calls[c].fetches = 2
    /\ endpointId = "local-development"
    /\ apiKey = "key-B"
    /\ calls[c].sentTo = <<"https://mcp.lcq.gg/v1", "/rpc/", "getAccountInfo">>
    /\ calls[c].sentBody.metadata.apiKey = "key-A"

(***************************************************************************)
(* Properties of the requests of one call at the transport (SpecRace).     *)
(***************************************************************************)
\* the requests of a call that the transport has not answered yet: the one
\* the call is waiting for, and those whose attempt the timer ended
PendingRequests(call) == (IF call.pc = "pending" THEN 1 ELSE 0) + call.late.fetch

\* C27: at most one request of an execute call is outstanding at any time: no
\* attempt is sent while the request of an earlier attempt of the call is
\* still pending at the transport.
C27_OneRequestOutstanding ==
  \A c \in Calls : PendingRequests(calls[c]) <= 1

(***************************************************************************)
(* Properties of the number of attempts and sleeps (Spec).                 *)
(***************************************************************************)
\* C28: for a known method id, an execute call makes at least one and at most
\* retryAttempts attempts, for every retryAttempts the constructor accepts:
\* 0, which becomes the configured 3, and negative values included.
C28_AttemptsWithinOption ==
  \A c \in Calls :
    (Ended(calls[c]) /\ calls[c].methodId \in MethodIds) =>
      /\ calls[c].fetches >= 1
      /\ calls[c].fetches <= options.retryAttempts

\* C29: no backoff sleep follows the last attempt of an execute call: after a
\* failure that is not retried, or after the failure of attempt number
\* retryAttempts, the error surfaces without a sleep, so a call that has made
\* k attempts (k >= 1) has slept k - 1 times when it ends, and never more
\* than once per ended attempt before that.
C29_NoSleepAfterLastAttempt ==
  \A c \in Calls :
    /\ (Ended(calls[c]) /\ calls[c].fetches >= 1) =>
         Len(calls[c].sleeps) = calls[c].fetches - 1
    /\ calls[c].pc = "pending" => Len(calls[c].sleeps) = calls[c].fetches - 1
    /\ calls[c].pc = "sleeping" =>
         /\ Len(calls[c].sleeps) = calls[c].fetches
         /\ calls[c].fetches < options.retryAttempts

\* a call has failed on the 503 of its third and last attempt after two sleeps
C29_Witness ==
  \E c \in Calls :
    /\ calls[c].pc = "thrown"
    /\ calls[c].every = HttpOutcome(503)
    /\ calls[c].fetches = 3
    /\ options.retryAttempts = 3
    /\ Len(calls[c].sleeps) = 2

\* C30: the endpoint id the client has selected always resolves to an
\* endpoint of the registry, after construction and after every setEndpoint
\* call, so every attempt of execute goes to the URL of the selected endpoint
\* and never to another endpoint.
C30_SelectedEndpointResolves ==
  \A c \in Calls :
    calls[c].fetches > 0 =>
      /\ endpointId \in EndpointIds
      /\ calls[c].sentTo[1] = UrlOf(endpointId)

====
